---- MODULE Spec2Model ----
(***************************************************************************)
(* Clique / independent-set / vertex-cover core of the graph project.      *)
(* The graph is a dense 0/1 adjacency matrix, vertex sets are bounded      *)
(* stacks (set_utils.c), the two clique enumerators (clique.c) run as a    *)
(* call-stack machine, and the composite operations (clique.c,             *)
(* independent_set.c, vertex_cover.c) are pipelines over that machine.     *)
(***************************************************************************)
EXTENDS Integers, Sequences, FiniteSets, TLC

\* Largest node count of the graphs drawn by Init.
MaxN == 4

VARIABLES
    graph,      \* the caller's Graph: node_count, adjacency, is_directed
    op,         \* the operation called on it ("none" before the call)
    pc,         \* position inside the operation
    eng,        \* the Graph create_complement_graph returned / the clique engine runs on
    bk,         \* clique engine: Current set C, call frames, recorded cliques
    hk,         \* bipartite engine: partition lists, matching arrays, phase state
    result,     \* the returned Set pointer (NULL or a set)
    ub,         \* what the build does on an out-of-bounds array write
    set,        \* a Set a caller of set_utils.c owns (NULL while none is made)
    call        \* the last set_utils.c call made on it: name and vertex argument

vars == <<graph, op, pc, eng, bk, hk, result, ub, set, call>>

-----------------------------------------------------------------------------
(* Indexing: C arrays are 0-based, TLA+ sequences 1-based.                  *)

At(seq, i) == seq[i + 1]

Vertices(n) == 0 .. (n - 1)

-----------------------------------------------------------------------------
(* Vertex Set: set_utils.c                                                  *)

NULL == [null |-> TRUE, vertices |-> <<>>, capacity |-> 0]

set_create(capacity) == [null |-> FALSE, vertices |-> <<>>, capacity |-> capacity]

SetSize(s) == Len(s.vertices)

\* Fault: the capacity is not compared, the vertex is always stored.
SetAddUnchecked(s, vertex) == [s EXCEPT !.vertices = Append(@, vertex)]

set_add(s, vertex) ==
    IF SetSize(s) < s.capacity
    THEN [s EXCEPT !.vertices = Append(@, vertex)]
    ELSE s

set_remove(s) ==
    IF SetSize(s) > 0
    THEN [s EXCEPT !.vertices = SubSeq(@, 1, Len(@) - 1)]
    ELSE s

set_contains(s, v) == \E i \in 1 .. Len(s.vertices) : s.vertices[i] = v

\* set_add applied to every element of seq, in order.
RECURSIVE AddAll(_, _)
AddAll(s, seq) ==
    IF seq = <<>> THEN s ELSE AddAll(set_add(s, Head(seq)), Tail(seq))

Members(s) == {s.vertices[i] : i \in 1 .. Len(s.vertices)}

SeqMembers(seq) == {seq[i] : i \in 1 .. Len(seq)}

-----------------------------------------------------------------------------
(* Graph: structs.h.  The inputs are the simple undirected graphs the       *)
(* degree-sequence construction produces (symmetric, no self-loop), and the *)
(* same matrices flagged directed.                                          *)

SimpleEdgeSets(n) ==
    SUBSET {e \in {{i, j} : i \in Vertices(n), j \in Vertices(n)} : Cardinality(e) = 2}

AdjOf(n, E) ==
    [i \in Vertices(n) |-> [j \in Vertices(n) |-> IF {i, j} \in E THEN 1 ELSE 0]]

MakeGraph(n, E, d) ==
    [null |-> FALSE, node_count |-> n, adjacency |-> AdjOf(n, E), is_directed |-> d]

\* The absent Graph pointer.
NoGraph == [null |-> TRUE, node_count |-> 0, adjacency |-> AdjOf(0, {}), is_directed |-> FALSE]

Adjacent(g, i, j) == g.adjacency[i][j] # 0

-----------------------------------------------------------------------------
(* Clique engine helpers: clique.c                                          *)

\* Fault: the adjacency test is dropped, every element other than v passes.
NoFilter(g, v, seq) == SelectSeq(seq, LAMBDA w : w # v)

\* The elements w of seq with adjacency[v][w] set, in order.
AdjFilter(g, v, seq) == SelectSeq(seq, LAMBDA w : g.adjacency[v][w] # 0)

\* src \cap N(v) built by set_add into a fresh set of the given capacity.
IntersectN(g, src, v, capacity) ==
    AddAll(set_create(capacity), AdjFilter(g, v, src.vertices))

\* |N(vertex) \cap P|, counted over the positions of P.
IntersectionSize(g, vertex, P) ==
    Cardinality({j \in 1 .. Len(P.vertices) : g.adjacency[vertex][P.vertices[j]] # 0})

\* Fault: an equal count also replaces the pivot, so the last vertex with the
\* largest count is kept.
RECURSIVE PivotScanKeepsLast(_, _, _, _, _)
PivotScanKeepsLast(g, P, seq, u, max_intersection_size) ==
    IF seq = <<>> THEN u
    ELSE LET vertex == Head(seq)
             current_intersection_size == IntersectionSize(g, vertex, P)
         IN  IF current_intersection_size >= max_intersection_size
             THEN PivotScanKeepsLast(g, P, Tail(seq), vertex, current_intersection_size)
             ELSE PivotScanKeepsLast(g, P, Tail(seq), u, max_intersection_size)

\* The pivot scan over a list of vertices: a strictly larger count replaces
\* the pivot, so the first vertex with the largest count is kept.
RECURSIVE PivotScan(_, _, _, _, _)
PivotScan(g, P, seq, u, max_intersection_size) ==
    IF seq = <<>> THEN u
    ELSE LET vertex == Head(seq)
             current_intersection_size == IntersectionSize(g, vertex, P)
         IN  IF current_intersection_size > max_intersection_size
             THEN PivotScan(g, P, Tail(seq), vertex, current_intersection_size)
             ELSE PivotScan(g, P, Tail(seq), u, max_intersection_size)

\* list 0 is P, list 1 is S.
SelectPivot(g, P, S) == PivotScan(g, P, P.vertices \o S.vertices, -1, -1)

\* P \ N(u), copied to the candidates array.
PWithoutNu(g, P, u) ==
    AddAll(set_create(SetSize(P)),
           SelectSeq(P.vertices, LAMBDA v : u = -1 \/ g.adjacency[u][v] = 0)).vertices

\* Fault: v is never taken out of P.
RemoveNothing(P, v) == P

\* find_maximal_cliques' removal of v from P: the first slot holding v takes
\* the last element and the size drops by one.
RemoveSwapLast(P, v) ==
    LET hits == {k \in 1 .. Len(P.vertices) : P.vertices[k] = v}
    IN  IF hits = {} THEN P
        ELSE LET k == CHOOSE x \in hits : \A y \in hits : x <= y
                 n == Len(P.vertices)
                 vs == P.vertices
             IN  [P EXCEPT !.vertices = SubSeq([vs EXCEPT ![k] = vs[n]], 1, n - 1)]

\* find_all_cliques' removal of slot i from P by shifting the tail left.
RemoveShift(P, i) ==
    [P EXCEPT !.vertices = SubSeq(@, 1, i) \o SubSeq(@, i + 2, Len(@))]

\* A call frame of either enumerator: its own P and S, the pivot u and the
\* candidates array (pivoted enumerator), the loop index i, the vertex v
\* being branched on, and the control point the call is at.
Frame(P, S) ==
    [P |-> P, S |-> S, u |-> -1, candidates |-> <<>>, i |-> 0, v |-> -1, at |-> "entry"]

Top(st) == st.frames[Len(st.frames)]

Pop(frames) == SubSeq(frames, 1, Len(frames) - 1)

SetTop(frames, f) == [frames EXCEPT ![Len(frames)] = f]

\* memcpy of C into a new set appended to the result array.
RecordClique(st) == [st EXCEPT !.cliques = Append(@, st.C.vertices)]

\* The standard initial sets: C empty, P = all vertices, S empty.
EngineStart(g) ==
    [C |-> set_create(g.node_count),
     frames |-> <<Frame(AddAll(set_create(g.node_count),
                               [k \in 1 .. g.node_count |-> k - 1]),
                        set_create(g.node_count))>>,
     cliques |-> <<>>]

EngineIdle == [C |-> set_create(0), frames |-> <<>>, cliques |-> <<>>]

-----------------------------------------------------------------------------
(* find_all_cliques, one step per control point of a call.                  *)

\* Fault: C is recorded only when no candidate is left.
AllEntryAtLeaves(g, st) ==
    LET st1 == IF SetSize(st.C) > 0 /\ SetSize(Top(st).P) = 0 THEN RecordClique(st) ELSE st
    IN  [st1 EXCEPT !.frames = SetTop(@, [Top(st) EXCEPT !.at = "loop", !.i = 0])]

\* Entry of a call: a non-empty C is recorded, then the loop starts at i = 0.
AllEntry(g, st) ==
    LET st1 == IF SetSize(st.C) > 0 THEN RecordClique(st) ELSE st
    IN  [st1 EXCEPT !.frames = SetTop(@, [Top(st) EXCEPT !.at = "loop", !.i = 0])]

\* Fault: the child's candidates are taken from all vertices of the graph that
\* extend C and v, not from what is left of P.
AllBranchFromAllVertices(g, st) ==
    LET f  == Top(st)
        v  == At(f.P.vertices, f.i)
        PP == AddAll(set_create(g.node_count),
                     SelectSeq([k \in 1 .. g.node_count |-> k - 1],
                               LAMBDA w : /\ w # v /\ g.adjacency[v][w] # 0
                                          /\ \A c \in Members(st.C) :
                                                w # c /\ g.adjacency[c][w] # 0))
        SS == IntersectN(g, f.S, v, SetSize(f.S))
    IN  [st EXCEPT !.C = set_add(@, v),
                   !.frames = Append(SetTop(@, [f EXCEPT !.v = v, !.at = "called"]),
                                     Frame(PP, SS))]

\* Loop body up to the recursive call: PP, SS, set_add(C, v), call.
AllBranch(g, st) ==
    LET f  == Top(st)
        v  == At(f.P.vertices, f.i)
        PP == IntersectN(g, f.P, v, SetSize(f.P))
        SS == IntersectN(g, f.S, v, SetSize(f.S))
    IN  [st EXCEPT !.C = set_add(@, v),
                   !.frames = Append(SetTop(@, [f EXCEPT !.v = v, !.at = "called"]),
                                     Frame(PP, SS))]

\* Loop body after the call returned: set_remove(C), v leaves P (shift,
\* size--, i--), v enters S; the loop's i++ then leaves i where it was.
AllResume(g, st) ==
    LET f == Top(st)
    IN  [st EXCEPT !.C = set_remove(@),
                   !.frames = SetTop(@, [f EXCEPT !.P = RemoveShift(f.P, f.i),
                                                  !.S = set_add(f.S, f.v),
                                                  !.at = "loop"])]

\* Loop exhausted: the call returns.
AllReturn(g, st) == [st EXCEPT !.frames = Pop(@)]

-----------------------------------------------------------------------------
(* find_maximal_cliques, one step per control point of a call.              *)

\* Fault: the base case forgets the excluded set.
IsTerminalIgnoringS(f) == SetSize(f.P) = 0

\* if (P->size == 0 && S->size == 0)
IsTerminal(f) == SetSize(f.P) = 0 /\ SetSize(f.S) = 0

\* Base case: P and S both empty, C is recorded and the call returns.
MaxRecord(g, st) == [RecordClique(st) EXCEPT !.frames = Pop(@)]

\* Pivot selection and the candidates array P \ N(u).
MaxPivot(g, st) ==
    LET f == Top(st)
        u == SelectPivot(g, f.P, f.S)
    IN  [st EXCEPT !.frames = SetTop(@, [f EXCEPT !.u = u,
                                                  !.candidates = PWithoutNu(g, f.P, u),
                                                  !.i = 0,
                                                  !.at = "loop"])]

\* Loop body up to the recursive call.
MaxBranch(g, st) ==
    LET f == Top(st)
        v == At(f.candidates, f.i)
        P_intersect_Nv == IntersectN(g, f.P, v, g.node_count)
        S_intersect_Nv == IntersectN(g, f.S, v, g.node_count)
    IN  [st EXCEPT !.C = set_add(@, v),
                   !.frames = Append(SetTop(@, [f EXCEPT !.v = v, !.at = "called"]),
                                     Frame(P_intersect_Nv, S_intersect_Nv))]

\* Loop body after the call returned: set_remove(C), v moves from P to S.
MaxResume(g, st) ==
    LET f == Top(st)
    IN  [st EXCEPT !.C = set_remove(@),
                   !.frames = SetTop(@, [f EXCEPT !.P = RemoveSwapLast(f.P, f.v),
                                                  !.S = set_add(f.S, f.v),
                                                  !.i = f.i + 1,
                                                  !.at = "loop"])]

\* Loop exhausted: the call returns.
MaxReturn(g, st) == [st EXCEPT !.frames = Pop(@)]

-----------------------------------------------------------------------------
(* The enumerators run to completion: the step relation iterated until the  *)
(* outermost call has returned.                                             *)

AllStep(g, st) ==
    LET f == Top(st)
    IN  CASE f.at = "entry" -> AllEntry(g, st)
          [] f.at = "called" -> AllResume(g, st)
          [] f.at = "loop" /\ f.i < SetSize(f.P) -> AllBranch(g, st)
          [] OTHER -> AllReturn(g, st)

MaxStep(g, st) ==
    LET f == Top(st)
    IN  CASE f.at = "entry" /\ IsTerminal(f) -> MaxRecord(g, st)
          [] f.at = "entry" -> MaxPivot(g, st)
          [] f.at = "called" -> MaxResume(g, st)
          [] f.at = "loop" /\ f.i < Len(f.candidates) -> MaxBranch(g, st)
          [] OTHER -> MaxReturn(g, st)

RECURSIVE AllRun(_, _)
AllRun(g, st) == IF st.frames = <<>> THEN st ELSE AllRun(g, AllStep(g, st))

RECURSIVE MaxRun(_, _)
MaxRun(g, st) == IF st.frames = <<>> THEN st ELSE MaxRun(g, MaxStep(g, st))

\* find_all_cliques / find_maximal_cliques from the standard initial sets:
\* the recorded array.
find_all_cliques(g) == AllRun(g, EngineStart(g)).cliques

find_maximal_cliques(g) == MaxRun(g, EngineStart(g)).cliques

\* The scan for the largest recorded clique: a strictly larger size replaces
\* max_clique, so the first of the largest is kept; NULL when none has size > 0.
RECURSIVE MaxScan(_, _, _)
MaxScan(cliques, max_size, max_clique) ==
    IF cliques = <<>> THEN max_clique
    ELSE IF Len(Head(cliques)) > max_size
         THEN MaxScan(Tail(cliques), Len(Head(cliques)),
                      [null |-> FALSE, vertices |-> Head(cliques),
                       capacity |-> Len(Head(cliques))])
         ELSE MaxScan(Tail(cliques), max_size, max_clique)

\* Fault: the first recorded clique is returned without comparing sizes.
SelectFirst(cliques) ==
    IF cliques = <<>> THEN NULL
    ELSE [null |-> FALSE, vertices |-> Head(cliques), capacity |-> Len(Head(cliques))]

\* Fault: max_size starts below every size, so an empty set can be selected.
SelectLargestFromMinusOne(cliques) == MaxScan(cliques, -1, NULL)

SelectLargest(cliques) == MaxScan(cliques, 0, NULL)

find_maximum_clique(g) == SelectLargest(find_maximal_cliques(g))
-----------------------------------------------------------------------------
(* independent_set.c                                                        *)

\* Fault: the matrix is copied instead of inverted.
CopiedAdj(original) == original.adjacency

\* Fault: the entry read is adjacency[i][i] instead of adjacency[i][j].
ComplementOfDiagonal(original) ==
    [i \in Vertices(original.node_count) |->
        [j \in Vertices(original.node_count) |->
            IF i = j THEN 0 ELSE 1 - original.adjacency[i][i]]]

\* Fault: only the entries above the diagonal are inverted, the rest stay 0.
ComplementUpperOnly(original) ==
    [i \in Vertices(original.node_count) |->
        [j \in Vertices(original.node_count) |->
            IF i < j THEN 1 - original.adjacency[i][j] ELSE 0]]

\* adjacency[i][j] = 0 on the diagonal, 1 - original elsewhere.
ComplementAdj(original) ==
    [i \in Vertices(original.node_count) |->
        [j \in Vertices(original.node_count) |->
            IF i = j THEN 0 ELSE 1 - original.adjacency[i][j]]]

\* Fault: the directedness of the input is not looked at.
ComplementAnyGraph(original) ==
    IF original.null THEN NoGraph
    ELSE [null |-> FALSE, node_count |-> original.node_count,
          adjacency |-> ComplementAdj(original), is_directed |-> FALSE]

create_complement_graph(original) ==
    IF original.null \/ original.is_directed THEN NoGraph
    ELSE [null |-> FALSE, node_count |-> original.node_count,
          adjacency |-> ComplementAdj(original), is_directed |-> FALSE]

\* Fault: the inverted entries are stored into the caller's matrix.
ComplementedInPlace(original) ==
    IF original.null \/ original.is_directed THEN original
    ELSE [original EXCEPT !.adjacency = ComplementAdj(original)]

\* The caller's Graph after create_complement_graph: the function reads
\* original->adjacency and stores only into the Graph it has allocated.
OriginalAfterComplement(original) == original

\* 0, 1, ..., n-1 as the order of a for loop over the vertices.
VertexOrder(n) == [k \in 1 .. n |-> k - 1]

\* The in_mis marks: only members inside 0..node_count-1 are marked.
InMis(g, mis) == {v \in Members(mis) : v >= 0 /\ v < g.node_count}

\* find_minimum_vertex_cover after the independent set is known.
CoverFromMis(g, mis) ==
    IF mis.null THEN NULL
    ELSE AddAll(set_create(g.node_count),
                SelectSeq(VertexOrder(g.node_count), LAMBDA v : v \notin InMis(g, mis)))

find_maximum_independent_set(g) ==
    IF g.null \/ g.is_directed THEN NULL
    ELSE LET comp == create_complement_graph(g)
         IN  IF comp.null THEN NULL ELSE find_maximum_clique(comp)

find_minimum_vertex_cover(g) ==
    IF g.null \/ g.is_directed THEN NULL
    ELSE CoverFromMis(g, find_maximum_independent_set(g))

-----------------------------------------------------------------------------
(* vertex_cover.c: exact cover via the complement's maximum clique          *)

\* Fault: the membership test is inverted, the clique itself is collected.
CoverOfMembers(g, max_clique) ==
    IF max_clique.null THEN NULL
    ELSE AddAll(set_create(g.node_count),
                SelectSeq([k \in 1 .. g.node_count |-> k - 1],
                          LAMBDA v : set_contains(max_clique, v)))

\* vertex_cover_exact_via_mis after the complement's maximum clique is known.
CoverFromMaxClique(g, max_clique) ==
    IF max_clique.null THEN NULL
    ELSE AddAll(set_create(g.node_count),
                SelectSeq(VertexOrder(g.node_count), LAMBDA v : ~set_contains(max_clique, v)))

vertex_cover_exact_via_mis(g) ==
    IF g.null \/ g.is_directed THEN NULL
    ELSE LET comp == create_complement_graph(g)
         IN  IF comp.null THEN NULL
             ELSE CoverFromMaxClique(g, find_maximum_clique(comp))

-----------------------------------------------------------------------------
(* vertex_cover.c: greedy cover from a maximal matching                     *)

\* Fault: the inner scan does not look at matched[v].
FirstNeighbour(g, matched, u) ==
    LET hits == {v \in Vertices(g.node_count) : g.adjacency[u][v] # 0}
    IN  IF hits = {} THEN -1 ELSE CHOOSE v \in hits : \A w \in hits : v <= w

\* The inner scan: the first v with adjacency[u][v] set and v not matched,
\* or -1 when the scan ends without a break.
FirstFreeNeighbour(g, matched, u) ==
    LET hits == {v \in Vertices(g.node_count) : g.adjacency[u][v] # 0 /\ v \notin matched}
    IN  IF hits = {} THEN -1 ELSE CHOOSE v \in hits : \A w \in hits : v <= w

\* Fault: both endpoints are marked but only u is added to the cover.
TakeEdgeAddingU(st, u, v) ==
    [matched |-> st.matched \cup {u, v}, vc |-> set_add(st.vc, u)]

\* Edge (u, v) is taken: each endpoint not yet matched is added and marked.
TakeEdge(st, u, v) ==
    LET st1 == IF u \notin st.matched
               THEN [matched |-> st.matched \cup {u}, vc |-> set_add(st.vc, u)]
               ELSE st
    IN  IF v \notin st1.matched
        THEN [matched |-> st1.matched \cup {v}, vc |-> set_add(st1.vc, v)]
        ELSE st1

RECURSIVE ApproxLoop(_, _, _)
ApproxLoop(g, st, u) ==
    IF u >= g.node_count THEN st
    ELSE IF u \in st.matched THEN ApproxLoop(g, st, u + 1)
    ELSE LET v == FirstFreeNeighbour(g, st.matched, u)
         IN  IF v = -1 THEN ApproxLoop(g, st, u + 1)
             ELSE ApproxLoop(g, TakeEdge(st, u, v), u + 1)

vertex_cover_approx(g) ==
    IF g.null \/ g.is_directed THEN NULL
    ELSE ApproxLoop(g, [matched |-> {}, vc |-> set_create(g.node_count)], 0).vc

-----------------------------------------------------------------------------
(* vertex_cover.c: partition detection                                      *)

Put(seq, i, x) == [seq EXCEPT ![i + 1] = x]

\* Fault: a neighbour that already has u's colour is passed over.
RECURSIVE ColourRowNoConflict(_, _, _, _, _)
ColourRowNoConflict(g, color, queue, u, v) ==
    IF v >= g.node_count THEN [ok |-> TRUE, color |-> color, queue |-> queue]
    ELSE IF g.adjacency[u][v] # 0 /\ color[v] = 0
         THEN ColourRowNoConflict(g, [color EXCEPT ![v] = IF color[u] = 1 THEN 2 ELSE 1],
                                  Append(queue, v), u, v + 1)
    ELSE ColourRowNoConflict(g, color, queue, u, v + 1)

\* The scan of u's row from column v on: an uncoloured neighbour takes the
\* other colour and is queued; a neighbour of u's colour ends the search.
RECURSIVE ColourRow(_, _, _, _, _)
ColourRow(g, color, queue, u, v) ==
    IF v >= g.node_count THEN [ok |-> TRUE, color |-> color, queue |-> queue]
    ELSE IF g.adjacency[u][v] = 0 THEN ColourRow(g, color, queue, u, v + 1)
    ELSE IF color[v] = 0
         THEN ColourRow(g, [color EXCEPT ![v] = IF color[u] = 1 THEN 2 ELSE 1],
                        Append(queue, v), u, v + 1)
    ELSE IF color[v] = color[u]
         THEN [ok |-> FALSE, color |-> color, queue |-> queue]
    ELSE ColourRow(g, color, queue, u, v + 1)

\* while (head < tail): the queue is drained from its head.
RECURSIVE ColourBfs(_, _, _)
ColourBfs(g, color, queue) ==
    IF queue = <<>> THEN [ok |-> TRUE, color |-> color]
    ELSE LET r == ColourRow(g, color, Tail(queue), Head(queue), 0)
         IN  IF ~r.ok THEN [ok |-> FALSE, color |-> r.color]
             ELSE ColourBfs(g, r.color, r.queue)

\* for (s = 0; s < n; s++): every uncoloured s starts a component, coloured 1.
RECURSIVE ColourComponents(_, _, _)
ColourComponents(g, color, s) ==
    IF s >= g.node_count THEN [ok |-> TRUE, color |-> color]
    ELSE IF color[s] # 0 THEN ColourComponents(g, color, s + 1)
    ELSE LET r == ColourBfs(g, [color EXCEPT ![s] = 1], <<s>>)
         IN  IF ~r.ok THEN r ELSE ColourComponents(g, r.color, s + 1)

\* is_bipartite_partition: ok, and the left / right masks when ok.
is_bipartite_partition(g) ==
    IF g.null \/ g.is_directed
    THEN [called |-> TRUE, ok |-> FALSE, left |-> <<>>, right |-> <<>>]
    ELSE LET r == ColourComponents(g, [v \in Vertices(g.node_count) |-> 0], 0)
         IN  IF ~r.ok THEN [called |-> TRUE, ok |-> FALSE, left |-> <<>>, right |-> <<>>]
             ELSE [called |-> TRUE, ok |-> TRUE,
                   left |-> [v \in Vertices(g.node_count) |->
                                IF r.color[v] = 2 THEN 0 ELSE 1],
                   right |-> [v \in Vertices(g.node_count) |->
                                IF r.color[v] = 2 THEN 1 ELSE 0]]

\* build_left_right_lists_from_masks: L holds the masked vertices in index
\* order, R every other vertex.
LeftList(g, left_mask) ==
    SelectSeq(VertexOrder(g.node_count), LAMBDA i : left_mask[i] # 0)

RightList(g, left_mask) ==
    SelectSeq(VertexOrder(g.node_count), LAMBDA i : left_mask[i] = 0)

-----------------------------------------------------------------------------
(* vertex_cover.c: hopcroft_karp                                            *)

INF_DIST == 2147483647

\* adjL[i]: the right indices j with adjacency[left_nodes[i]][right_nodes[j]].
BuildAdjL(g, left_nodes, right_nodes) ==
    [i \in 1 .. Len(left_nodes) |->
        SelectSeq([k \in 1 .. Len(right_nodes) |-> k - 1],
                  LAMBDA j : g.adjacency[left_nodes[i]][At(right_nodes, j)] # 0)]

\* The answer of is_bipartite_partition before it was called.
NoPartition == [called |-> FALSE, ok |-> FALSE, left |-> <<>>, right |-> <<>>]

HKIdle ==
    [at |-> "idle", left_nodes |-> <<>>, right_nodes |-> <<>>, adjL |-> <<>>,
     pairU |-> <<>>, pairV |-> <<>>, dist |-> <<>>, next |-> <<>>, start |-> 0,
     matching |-> 0, found_augmenting |-> 0, phases |-> 0, phase_matching |-> 0,
     oob |-> FALSE,
     arrays |-> FALSE, partition |-> NoPartition]

\* Entry of hopcroft_karp: an empty side returns 0 with NULL arrays,
\* otherwise adjL is built and both pair arrays are filled with -1.
HKStart(g, left_nodes, right_nodes) ==
    IF Len(left_nodes) = 0 \/ Len(right_nodes) = 0
    THEN [HKIdle EXCEPT !.at = "returned", !.left_nodes = left_nodes,
                        !.right_nodes = right_nodes]
    ELSE [HKIdle EXCEPT !.at = "bfs", !.left_nodes = left_nodes,
                        !.right_nodes = right_nodes,
                        !.adjL = BuildAdjL(g, left_nodes, right_nodes),
                        !.pairU = [i \in 1 .. Len(left_nodes) |-> -1],
                        !.pairV = [j \in 1 .. Len(right_nodes) |-> -1],
                        !.dist = [i \in 1 .. Len(left_nodes) |-> 0],
                        !.arrays = TRUE]

\* The BFS scan of u's neighbours: a free right vertex sets found_augmenting,
\* a matched one queues its partner the first time it is reached.
RECURSIVE BfsScan(_, _, _, _, _, _)
BfsScan(neigh, pairV, dist, q, found, u) ==
    IF neigh = <<>> THEN [dist |-> dist, q |-> q, found |-> found]
    ELSE LET v  == Head(neigh)
             pu == At(pairV, v)
         IN  IF pu = -1
             THEN BfsScan(Tail(neigh), pairV, dist, q, 1, u)
             ELSE IF At(dist, pu) = INF_DIST
                  THEN BfsScan(Tail(neigh), pairV, Put(dist, pu, At(dist, u) + 1),
                               Append(q, pu), found, u)
                  ELSE BfsScan(Tail(neigh), pairV, dist, q, found, u)

RECURSIVE BfsLoop(_, _, _, _, _)
BfsLoop(adjL, pairV, dist, q, found) ==
    IF q = <<>> THEN [dist |-> dist, found |-> found]
    ELSE LET r == BfsScan(At(adjL, Head(q)), pairV, dist, Tail(q), found, Head(q))
         IN  BfsLoop(adjL, pairV, r.dist, r.q, r.found)

\* One BFS of the phase loop: layers from the free left vertices.  phases
\* counts the passes of the while (1) loop and phase_matching keeps the
\* matching count the pass started with.
HKBfs(h) ==
    LET left_n == Len(h.left_nodes)
        dist0  == [i \in 1 .. left_n |-> IF h.pairU[i] = -1 THEN 0 ELSE INF_DIST]
        q0     == SelectSeq([k \in 1 .. left_n |-> k - 1], LAMBDA i : At(h.pairU, i) = -1)
        r      == BfsLoop(h.adjL, h.pairV, dist0, q0, 0)
    IN  [h EXCEPT !.dist = r.dist, !.found_augmenting = r.found,
                  !.phases = h.phases + 1,
                  !.phase_matching = h.matching,
                  !.at = IF r.found = 0 THEN "returned" ELSE "dfs",
                  !.next = [i \in 1 .. left_n |-> 0],
                  !.start = 0]

\* Fault: the flip updates pairU only, the right vertex at the end of the path
\* stays free.
RECURSIVE FlipLeftOnly(_, _, _, _)
FlipLeftOnly(h, stack, idx, cur_v) ==
    IF idx < 0 THEN h
    ELSE LET cur_u == At(stack, idx)
             h1 == [h EXCEPT !.pairU = Put(@, cur_u, cur_v),
                             !.oob = @ \/ cur_v = -1]
         IN  IF idx > 0
             THEN FlipLeftOnly(h1, stack, idx - 1, At(h1.pairU, At(stack, idx - 1)))
             ELSE h1

\* The flip along the stack, from idx down to 0.  pairV[cur_v] with
\* cur_v = -1 is a write before the start of the array: it is recorded in
\* oob and leaves the modelled arrays alone.
RECURSIVE Flip(_, _, _, _)
Flip(h, stack, idx, cur_v) ==
    IF idx < 0 THEN h
    ELSE LET cur_u == At(stack, idx)
             h1 == [h EXCEPT !.pairU = Put(@, cur_u, cur_v),
                             !.pairV = IF cur_v = -1 THEN @ ELSE Put(@, cur_v, cur_u),
                             !.oob = @ \/ cur_v = -1]
         IN  IF idx > 0
             THEN Flip(h1, stack, idx - 1, At(h1.pairU, At(stack, idx - 1)))
             ELSE h1

\* The iterative DFS from one start vertex, until the stack is empty.
RECURSIVE DfsLoop(_, _)
DfsLoop(h, stack) ==
    IF stack = <<>> THEN h
    ELSE LET u == stack[Len(stack)]
         IN  IF At(h.next, u) < Len(At(h.adjL, u))
             THEN LET v  == At(At(h.adjL, u), At(h.next, u))
                      h1 == [h EXCEPT !.next = Put(@, u, At(@, u) + 1)]
                      pu == At(h.pairV, v)
                  IN  IF pu = -1
                      THEN [Flip(h1, stack, Len(stack) - 1, v)
                                EXCEPT !.matching = @ + 1]
                      ELSE IF At(h.dist, pu) = At(h.dist, u) + 1 /\ At(h.pairU, pu) # -1
                           THEN DfsLoop(h1, Append(stack, pu))
                           ELSE DfsLoop(h1, stack)
             ELSE DfsLoop(h, SubSeq(stack, 1, Len(stack) - 1))

\* for (start ...) body: a matched start is skipped, a free one is searched.
HKDfsFrom(h) ==
    IF At(h.pairU, h.start) # -1
    THEN [h EXCEPT !.start = @ + 1]
    ELSE [DfsLoop(h, <<h.start>>) EXCEPT !.start = @ + 1]

\* The for loop over start is over: next phase.
HKDfsEnd(h) == [h EXCEPT !.at = "bfs"]

-----------------------------------------------------------------------------
(* vertex_cover.c: vertex_cover_from_matching and the König driver          *)

\* Left vertex li scans adjL[li]: an unvisited right neighbour not matched to
\* li is visited and queued (coded -1 - rj).
RECURSIVE AltScan(_, _, _, _, _)
AltScan(neigh, pairU, li, visitedR, queue) ==
    IF neigh = <<>> THEN [visitedR |-> visitedR, queue |-> queue]
    ELSE LET rj == Head(neigh)
         IN  IF At(visitedR, rj) = 0 /\ At(pairU, li) # rj
             THEN AltScan(Tail(neigh), pairU, li, Put(visitedR, rj, 1),
                          Append(queue, -1 - rj))
             ELSE AltScan(Tail(neigh), pairU, li, visitedR, queue)

RECURSIVE AltBfs(_, _, _, _, _, _)
AltBfs(adjL, pairU, pairV, visitedL, visitedR, queue) ==
    IF queue = <<>> THEN [visitedL |-> visitedL, visitedR |-> visitedR]
    ELSE LET code == Head(queue)
         IN  IF code >= 0
             THEN LET r == AltScan(At(adjL, code), pairU, code, visitedR, Tail(queue))
                  IN  AltBfs(adjL, pairU, pairV, visitedL, r.visitedR, r.queue)
             ELSE LET rj == -1 - code
                      paired_left == At(pairV, rj)
                  IN  IF paired_left # -1 /\ At(visitedL, paired_left) = 0
                      THEN AltBfs(adjL, pairU, pairV, Put(visitedL, paired_left, 1),
                                  visitedR, Append(Tail(queue), paired_left))
                      ELSE AltBfs(adjL, pairU, pairV, visitedL, visitedR, Tail(queue))

\* (Left \ Z) \cup (Right \cap Z), left vertices first, each side in list order.
vertex_cover_from_matching(g, left_nodes, right_nodes, pairU, pairV) ==
    LET left_n  == Len(left_nodes)
        right_n == Len(right_nodes)
        adjL    == BuildAdjL(g, left_nodes, right_nodes)
        free    == SelectSeq([k \in 1 .. left_n |-> k - 1], LAMBDA i : At(pairU, i) = -1)
        z       == AltBfs(adjL, pairU, pairV,
                          [i \in 1 .. left_n |-> IF pairU[i] = -1 THEN 1 ELSE 0],
                          [j \in 1 .. right_n |-> 0], free)
        keptL   == SelectSeq([k \in 1 .. left_n |-> k - 1], LAMBDA i : At(z.visitedL, i) = 0)
        keptR   == SelectSeq([k \in 1 .. right_n |-> k - 1], LAMBDA j : At(z.visitedR, j) # 0)
    IN  AddAll(AddAll(set_create(g.node_count),
                      [k \in 1 .. Len(keptL) |-> At(left_nodes, keptL[k])]),
               [k \in 1 .. Len(keptR) |-> At(right_nodes, keptR[k])])

\* The trivial cover of an empty side: every vertex of nonzero degree.
NonIsolated(g) ==
    AddAll(set_create(g.node_count),
           SelectSeq(VertexOrder(g.node_count),
                     LAMBDA i : \E j \in Vertices(g.node_count) : g.adjacency[i][j] # 0))

\* vertex_cover_bipartite_konig after hopcroft_karp has returned.
KonigCover(g, h) ==
    IF Len(h.left_nodes) = 0 \/ Len(h.right_nodes) = 0
    THEN NonIsolated(g)
    ELSE vertex_cover_from_matching(g, h.left_nodes, h.right_nodes, h.pairU, h.pairV)

-----------------------------------------------------------------------------
(* The program: a graph is built, then one operation is called on it.       *)

\* The path 0-1-2-3 and the 5-cycle, two inputs the repository's description
\* names; the cycle is drawn whatever MaxN is.
PathGraph == MakeGraph(4, {{0, 1}, {1, 2}, {2, 3}}, FALSE)

CycleGraph == MakeGraph(5, {{0, 1}, {1, 2}, {2, 3}, {3, 4}, {4, 0}}, FALSE)

\* No set_utils.c call has been made.
NoCall == [name |-> "none", vertex |-> -1]

\* Everything but the graph before an operation is called.
Idle ==
    /\ op = "none"
    /\ pc = "idle"
    /\ eng = NoGraph
    /\ bk = EngineIdle
    /\ hk = HKIdle
    /\ result = NULL
    /\ ub = "none"

Init ==
    /\ \/ \E n \in 0 .. MaxN : \E E \in SimpleEdgeSets(n) : \E d \in BOOLEAN :
              graph = MakeGraph(n, E, d)
       \/ graph \in {PathGraph, CycleGraph}
    /\ Idle
    /\ set = NULL
    /\ call = NoCall

\* The operations whose engine run is the pivoted enumerator.
PivotedOps ==
    {"find_maximal_cliques", "find_maximum_clique", "find_maximum_independent_set",
     "find_minimum_vertex_cover", "vertex_cover_exact_via_mis"}

\* analyze_cliques with algorithm 1, which main calls on undirected graphs.
CallFindAllCliques ==
    /\ pc = "idle" /\ ~graph.is_directed
    /\ op' = "find_all_cliques" /\ pc' = "enum"
    /\ eng' = graph /\ bk' = EngineStart(graph)
    /\ UNCHANGED <<graph, hk, result, ub, set, call>>

\* analyze_cliques with algorithm 2.
CallFindMaximalCliques ==
    /\ pc = "idle" /\ ~graph.is_directed
    /\ op' = "find_maximal_cliques" /\ pc' = "enum"
    /\ eng' = graph /\ bk' = EngineStart(graph)
    /\ UNCHANGED <<graph, hk, result, ub, set, call>>

CallFindMaximumClique ==
    /\ pc = "idle" /\ ~graph.is_directed
    /\ op' = "find_maximum_clique" /\ pc' = "enum"
    /\ eng' = graph /\ bk' = EngineStart(graph)
    /\ UNCHANGED <<graph, hk, result, ub, set, call>>

\* The three operations that start from the complement: directed input
\* returns NULL at once, otherwise the engine starts on the complement.
CallOnComplement(name) ==
    /\ pc = "idle"
    /\ op' = name
    /\ IF graph.null \/ graph.is_directed \/ create_complement_graph(graph).null
       THEN /\ pc' = "done" /\ result' = NULL
            /\ UNCHANGED <<eng, bk>>
       ELSE /\ pc' = "enum" /\ eng' = create_complement_graph(graph)
            /\ bk' = EngineStart(create_complement_graph(graph))
            /\ UNCHANGED result
    /\ graph' = OriginalAfterComplement(graph)
    /\ UNCHANGED <<hk, ub, set, call>>

CallFindMaximumIndependentSet == CallOnComplement("find_maximum_independent_set")

CallFindMinimumVertexCover == CallOnComplement("find_minimum_vertex_cover")

CallVertexCoverExactViaMis == CallOnComplement("vertex_cover_exact_via_mis")

\* create_complement_graph called on its own: the returned Graph is kept in eng.
CallCreateComplementGraph ==
    /\ pc = "idle"
    /\ op' = "create_complement_graph" /\ pc' = "done"
    /\ eng' = create_complement_graph(graph)
    /\ graph' = OriginalAfterComplement(graph)
    /\ UNCHANGED <<bk, hk, result, ub, set, call>>

\* create_complement_graph called on the Graph the first call returned.
CallCreateComplementGraphAgain ==
    /\ pc = "done" /\ op = "create_complement_graph" /\ ~eng.null
    /\ op' = "create_complement_graph_twice"
    /\ eng' = create_complement_graph(eng)
    /\ UNCHANGED <<graph, pc, bk, hk, result, ub, set, call>>

CallVertexCoverApprox ==
    /\ pc = "idle"
    /\ op' = "vertex_cover_approx" /\ pc' = "done"
    /\ result' = vertex_cover_approx(graph)
    /\ UNCHANGED <<graph, eng, bk, hk, ub, set, call>>

\* Directed input returns NULL at once; is_bipartite_partition is called on
\* the rest and a false answer returns NULL; otherwise the partition lists
\* are built and hopcroft_karp is entered.
CallVertexCoverBipartiteKonig ==
    /\ pc = "idle"
    /\ op' = "vertex_cover_bipartite_konig"
    /\ IF graph.null \/ graph.is_directed
       THEN /\ pc' = "done" /\ result' = NULL
            /\ UNCHANGED hk
       ELSE LET partition == is_bipartite_partition(graph)
            IN  IF ~partition.ok
                THEN /\ pc' = "done" /\ result' = NULL
                     /\ hk' = [HKIdle EXCEPT !.partition = partition]
                ELSE /\ pc' = "hk"
                     /\ hk' = [HKStart(graph, LeftList(graph, partition.left),
                                       RightList(graph, partition.left))
                                   EXCEPT !.partition = partition]
                     /\ UNCHANGED result
    /\ UNCHANGED <<graph, eng, bk, ub, set, call>>

Running(ops) == pc = "enum" /\ op \in ops /\ bk.frames # <<>>

EngineMoves(next) == bk' = next /\ UNCHANGED <<graph, op, pc, eng, hk, result, ub, set, call>>

StepAllEntry ==
    /\ Running({"find_all_cliques"}) /\ Top(bk).at = "entry"
    /\ EngineMoves(AllEntry(eng, bk))

StepAllBranch ==
    /\ Running({"find_all_cliques"}) /\ Top(bk).at = "loop"
    /\ Top(bk).i < SetSize(Top(bk).P)
    /\ EngineMoves(AllBranch(eng, bk))

StepAllResume ==
    /\ Running({"find_all_cliques"}) /\ Top(bk).at = "called"
    /\ EngineMoves(AllResume(eng, bk))

StepAllReturn ==
    /\ Running({"find_all_cliques"}) /\ Top(bk).at = "loop"
    /\ Top(bk).i >= SetSize(Top(bk).P)
    /\ EngineMoves(AllReturn(eng, bk))

StepMaxRecord ==
    /\ Running(PivotedOps) /\ Top(bk).at = "entry" /\ IsTerminal(Top(bk))
    /\ EngineMoves(MaxRecord(eng, bk))

StepMaxPivot ==
    /\ Running(PivotedOps) /\ Top(bk).at = "entry" /\ ~IsTerminal(Top(bk))
    /\ EngineMoves(MaxPivot(eng, bk))

StepMaxBranch ==
    /\ Running(PivotedOps) /\ Top(bk).at = "loop"
    /\ Top(bk).i < Len(Top(bk).candidates)
    /\ EngineMoves(MaxBranch(eng, bk))

StepMaxResume ==
    /\ Running(PivotedOps) /\ Top(bk).at = "called"
    /\ EngineMoves(MaxResume(eng, bk))

StepMaxReturn ==
    /\ Running(PivotedOps) /\ Top(bk).at = "loop"
    /\ Top(bk).i >= Len(Top(bk).candidates)
    /\ EngineMoves(MaxReturn(eng, bk))

Finished(name) == pc = "enum" /\ op = name /\ bk.frames = <<>>

\* analyze_cliques keeps the recorded array; nothing else is returned.
FinishEnumerate ==
    /\ \/ Finished("find_all_cliques")
       \/ Finished("find_maximal_cliques")
    /\ pc' = "done"
    /\ UNCHANGED <<graph, op, eng, bk, hk, result, ub, set, call>>

FinishMaximumClique ==
    /\ Finished("find_maximum_clique")
    /\ pc' = "done" /\ result' = SelectLargest(bk.cliques)
    /\ UNCHANGED <<graph, op, eng, bk, hk, ub, set, call>>

FinishMaximumIndependentSet ==
    /\ Finished("find_maximum_independent_set")
    /\ pc' = "done" /\ result' = SelectLargest(bk.cliques)
    /\ UNCHANGED <<graph, op, eng, bk, hk, ub, set, call>>

FinishMinimumVertexCover ==
    /\ Finished("find_minimum_vertex_cover")
    /\ pc' = "done" /\ result' = CoverFromMis(graph, SelectLargest(bk.cliques))
    /\ UNCHANGED <<graph, op, eng, bk, hk, ub, set, call>>

FinishVertexCoverExactViaMis ==
    /\ Finished("vertex_cover_exact_via_mis")
    /\ pc' = "done" /\ result' = CoverFromMaxClique(graph, SelectLargest(bk.cliques))
    /\ UNCHANGED <<graph, op, eng, bk, hk, ub, set, call>>

InHK(at) == pc = "hk" /\ hk.at = at

StepHKBfs ==
    /\ InHK("bfs")
    /\ hk' = HKBfs(hk)
    /\ UNCHANGED <<graph, op, pc, eng, bk, result, ub, set, call>>

StepHKDfsSkip ==
    /\ InHK("dfs") /\ hk.start < Len(hk.left_nodes)
    /\ At(hk.pairU, hk.start) # -1
    /\ hk' = HKDfsFrom(hk)
    /\ UNCHANGED <<graph, op, pc, eng, bk, result, ub, set, call>>

\* A search whose flip stays inside the arrays.
StepHKDfsSearch ==
    /\ InHK("dfs") /\ hk.start < Len(hk.left_nodes)
    /\ At(hk.pairU, hk.start) = -1
    /\ HKDfsFrom(hk).oob = hk.oob
    /\ hk' = HKDfsFrom(hk)
    /\ UNCHANGED <<graph, op, pc, eng, bk, result, ub, set, call>>

\* A search whose flip writes pairV[-1]: undefined behaviour.  The build
\* either stops the process at the write or lets it pass without touching
\* the arrays; one build answers the same way every time.
StepHKDfsOutOfBounds ==
    /\ InHK("dfs") /\ hk.start < Len(hk.left_nodes)
    /\ At(hk.pairU, hk.start) = -1
    /\ HKDfsFrom(hk).oob # hk.oob
    /\ hk' = HKDfsFrom(hk)
    /\ \E outcome \in {"abort", "ignored"} :
           /\ ub' = outcome
           /\ pc' = IF outcome = "abort" THEN "aborted" ELSE pc
    /\ UNCHANGED <<graph, op, eng, bk, result, set, call>>

StepHKDfsEnd ==
    /\ InHK("dfs") /\ hk.start >= Len(hk.left_nodes)
    /\ hk' = HKDfsEnd(hk)
    /\ UNCHANGED <<graph, op, pc, eng, bk, result, ub, set, call>>

FinishVertexCoverBipartiteKonig ==
    /\ InHK("returned")
    /\ pc' = "done" /\ result' = KonigCover(graph, hk)
    /\ UNCHANGED <<graph, op, eng, bk, hk, ub, set, call>>

Next ==
    \/ CallFindAllCliques
    \/ CallFindMaximalCliques
    \/ CallFindMaximumClique
    \/ CallFindMaximumIndependentSet
    \/ CallFindMinimumVertexCover
    \/ CallVertexCoverExactViaMis
    \/ CallCreateComplementGraph
    \/ CallCreateComplementGraphAgain
    \/ CallVertexCoverApprox
    \/ StepAllEntry
    \/ StepAllBranch
    \/ StepAllResume
    \/ StepAllReturn
    \/ StepMaxRecord
    \/ StepMaxPivot
    \/ StepMaxBranch
    \/ StepMaxResume
    \/ StepMaxReturn
    \/ FinishEnumerate
    \/ FinishMaximumClique
    \/ FinishMaximumIndependentSet
    \/ FinishMinimumVertexCover
    \/ FinishVertexCoverExactViaMis
    \/ CallVertexCoverBipartiteKonig
    \/ StepHKBfs
    \/ StepHKDfsSkip
    \/ StepHKDfsSearch
    \/ StepHKDfsOutOfBounds
    \/ StepHKDfsEnd
    \/ FinishVertexCoverBipartiteKonig

Spec == Init /\ [][Next]_vars

\* The steps of a call of vertex_cover_bipartite_konig that has begun.
HopcroftKarpSteps ==
    \/ StepHKBfs
    \/ StepHKDfsSkip
    \/ StepHKDfsSearch
    \/ StepHKDfsOutOfBounds
    \/ StepHKDfsEnd
    \/ FinishVertexCoverBipartiteKonig

\* The König driver alone.  The program is sequential: a call that has
\* begun and has a next step takes it, which is the weak fairness of its
\* steps; whether the call is ever made is left open.
HopcroftKarpNext ==
    \/ CallVertexCoverBipartiteKonig
    \/ StepHKBfs
    \/ StepHKDfsSkip
    \/ StepHKDfsSearch
    \/ StepHKDfsOutOfBounds
    \/ StepHKDfsEnd
    \/ FinishVertexCoverBipartiteKonig

HopcroftKarpSpec ==
    Init /\ [][HopcroftKarpNext]_vars /\ WF_vars(HopcroftKarpSteps)

-----------------------------------------------------------------------------
(* A caller of set_utils.c: one Set is created, then set_add and set_remove *)
(* are called on it in any order.                                           *)

\* Largest capacity handed to set_create.
MaxCapacity == 3

SetInit ==
    /\ graph = NoGraph
    /\ Idle
    /\ set = NULL
    /\ call = NoCall

CallSetCreate ==
    /\ set.null
    /\ \E capacity \in 0 .. MaxCapacity : set' = set_create(capacity)
    /\ call' = [name |-> "set_create", vertex |-> -1]
    /\ UNCHANGED <<graph, op, pc, eng, bk, hk, result, ub>>

CallSetAdd ==
    /\ ~set.null
    /\ \E vertex \in Vertices(MaxN) :
           /\ set' = set_add(set, vertex)
           /\ call' = [name |-> "set_add", vertex |-> vertex]
    /\ UNCHANGED <<graph, op, pc, eng, bk, hk, result, ub>>

CallSetRemove ==
    /\ ~set.null
    /\ set' = set_remove(set)
    /\ call' = [name |-> "set_remove", vertex |-> -1]
    /\ UNCHANGED <<graph, op, pc, eng, bk, hk, result, ub>>

SetNext ==
    \/ CallSetCreate
    \/ CallSetAdd
    \/ CallSetRemove

SetSpec == SetInit /\ [][SetNext]_vars

-----------------------------------------------------------------------------
(* Graph-theoretic reference notions the properties are stated against.     *)

EdgesOf(g) ==
    {e \in SUBSET Vertices(g.node_count) :
        Cardinality(e) = 2 /\ \A i \in e : \A j \in e : i # j => Adjacent(g, i, j)}

IsClique(g, X) == \A a \in X : \A b \in X : a # b => Adjacent(g, a, b)

IsIndependent(g, X) == \A a \in X : \A b \in X : a # b => ~Adjacent(g, a, b)

IsVertexCover(g, X) == \A e \in EdgesOf(g) : e \cap X # {}

IsMatching(g, M) == M \subseteq EdgesOf(g) /\ \A e \in M : \A f \in M : e # f => e \cap f = {}

\* X is a clique no vertex outside it is adjacent to all members of.
IsMaximalClique(g, X) ==
    /\ IsClique(g, X)
    /\ \A v \in Vertices(g.node_count) \ X : \E m \in X : ~Adjacent(g, v, m)

MaximalCliquesOf(g) == {X \in SUBSET Vertices(g.node_count) : IsMaximalClique(g, X)}

Largest(sizes) == CHOOSE k \in sizes : \A m \in sizes : m <= k

MaxCliqueSize(g) ==
    Largest({Cardinality(X) : X \in {Y \in SUBSET Vertices(g.node_count) : IsClique(g, Y)}})

MaxIndependentSize(g) ==
    Largest({Cardinality(X) : X \in {Y \in SUBSET Vertices(g.node_count) : IsIndependent(g, Y)}})

MaxMatchingSize(g) ==
    Largest({Cardinality(M) : M \in {N \in SUBSET EdgesOf(g) : IsMatching(g, N)}})

Recorded == {SeqMembers(bk.cliques[k]) : k \in 1 .. Len(bk.cliques)}

Returned(name) == op = name /\ pc = "done" /\ ~graph.is_directed

-----------------------------------------------------------------------------
(* Properties.                                                              *)

\* C1: every set either enumerator has recorded, at any point of a run from
\* the standard initial sets on an undirected loop-free graph, is a clique:
\* any two distinct members are adjacent.
C1_RecordedSetsAreCliques ==
    (op \in {"find_all_cliques", "find_maximal_cliques"} /\ ~graph.is_directed)
        => \A k \in 1 .. Len(bk.cliques) : IsClique(graph, SeqMembers(bk.cliques[k]))

\* C1 witness: the exhaustive enumerator has finished on a graph with a
\* missing edge and has recorded a triangle.
C1_Witness ==
    /\ Returned("find_all_cliques")
    /\ Cardinality(EdgesOf(graph)) < (graph.node_count * (graph.node_count - 1)) \div 2
    /\ \E k \in 1 .. Len(bk.cliques) : Len(bk.cliques[k]) = 3

\* C2: when find_maximal_cliques returns, the recorded sets are exactly the
\* maximal cliques of the graph, no set is recorded twice, and no recorded
\* set is contained in another recorded set.
C2_MaximalCliquesExactlyOnce ==
    Returned("find_maximal_cliques") =>
        /\ Recorded = MaximalCliquesOf(graph)
        /\ \A j \in 1 .. Len(bk.cliques) : \A k \in 1 .. Len(bk.cliques) :
              j # k => /\ SeqMembers(bk.cliques[j]) # SeqMembers(bk.cliques[k])
                       /\ ~(SeqMembers(bk.cliques[j]) \subseteq SeqMembers(bk.cliques[k]))

\* C2 witness: the pivoted enumerator returned with three or more maximal
\* cliques of different sizes.
C2_Witness ==
    /\ Returned("find_maximal_cliques")
    /\ Len(bk.cliques) >= 3
    /\ \E j \in 1 .. Len(bk.cliques) : \E k \in 1 .. Len(bk.cliques) :
          Len(bk.cliques[j]) < Len(bk.cliques[k])

\* C3: every set the pivoted enumerator has recorded so far is maximal: no
\* vertex outside it is adjacent to all of its members.
C3_RecordedSetsAreMaximal ==
    (op = "find_maximal_cliques" /\ ~graph.is_directed)
        => \A k \in 1 .. Len(bk.cliques) :
              \A v \in Vertices(graph.node_count) \ SeqMembers(bk.cliques[k]) :
                  \E m \in SeqMembers(bk.cliques[k]) : ~Adjacent(graph, v, m)

\* C3 witness: a call of the pivoted enumerator is at its entry with P empty
\* and S not empty (a clique that is not maximal, and is not recorded) after
\* another clique was recorded.
C3_Witness ==
    /\ op = "find_maximal_cliques" /\ pc = "enum"
    /\ bk.frames # <<>>
    /\ Top(bk).at = "entry" /\ SetSize(Top(bk).P) = 0 /\ SetSize(Top(bk).S) > 0
    /\ Len(bk.cliques) >= 1

C5_MaximumIndependentSet ==
    (Returned("find_maximum_independent_set") /\ graph.node_count >= 1) =>
        /\ ~result.null
        /\ IsIndependent(graph, Members(result))
        /\ Cardinality(Members(result)) = SetSize(result)
        /\ SetSize(result) = MaxIndependentSize(graph)

\* C5 witness: an independent set of two or more vertices was returned for a
\* graph that has edges.
C5_Witness ==
    /\ Returned("find_maximum_independent_set")
    /\ ~result.null /\ SetSize(result) >= 2
    /\ EdgesOf(graph) # {}

\* C6: on an undirected graph with n >= 1 vertices both exact cover routines
\* return a set that touches every edge, has n minus the size of
\* find_maximum_independent_set's result members, and is no larger than any
\* vertex cover of the graph.
C6_ExactCoverIsMinimum ==
    ((Returned("vertex_cover_exact_via_mis") \/ Returned("find_minimum_vertex_cover"))
        /\ graph.node_count >= 1) =>
        /\ ~result.null
        /\ IsVertexCover(graph, Members(result))
        /\ SetSize(result) =
              graph.node_count - SetSize(find_maximum_independent_set(graph))
        /\ \A X \in SUBSET Vertices(graph.node_count) :
              IsVertexCover(graph, X) => SetSize(result) <= Cardinality(X)

\* C6 witness: vertex_cover_exact_via_mis returned a cover of two or more
\* vertices that is not the whole vertex set.
C6_Witness ==
    /\ Returned("vertex_cover_exact_via_mis")
    /\ ~result.null
    /\ SetSize(result) >= 2 /\ SetSize(result) < graph.node_count

\* C7: whenever vertex_cover_bipartite_konig returns a set for an undirected
\* bipartite graph, every edge of the graph has an endpoint in that set.
C7_KonigReturnsCover ==
    (Returned("vertex_cover_bipartite_konig") /\ ~result.null)
        => IsVertexCover(graph, Members(result))

\* C8: whenever vertex_cover_bipartite_konig returns a set for an undirected
\* bipartite graph with at least one vertex, its size equals the size of the
\* set vertex_cover_exact_via_mis returns and the maximum matching size.
C8_KonigSizeIsOptimal ==
    (Returned("vertex_cover_bipartite_konig") /\ ~result.null /\ graph.node_count >= 1) =>
        /\ SetSize(result) = SetSize(vertex_cover_exact_via_mis(graph))
        /\ SetSize(result) = MaxMatchingSize(graph)

\* The pairs (left_nodes[i], right_nodes[pairU[i]]) of the matched left indices.
PairedEdges(h) ==
    {{At(h.left_nodes, i), At(h.right_nodes, At(h.pairU, i))} :
        i \in {k \in 0 .. Len(h.pairU) - 1 : At(h.pairU, k) # -1}}

\* C9: when hopcroft_karp returns, its count is the maximum matching size of
\* the graph and pairU / pairV describe a matching of exactly that many
\* edges: the two arrays are inverse to each other and the matched pairs are
\* that many pairwise disjoint edges.
C9_HopcroftKarpIsMaximum ==
    (op = "vertex_cover_bipartite_konig" /\ pc \in {"hk", "done"} /\ hk.at = "returned") =>
        /\ hk.matching = MaxMatchingSize(graph)
        /\ hk.arrays =>
              /\ \A i \in 0 .. Len(hk.pairU) - 1 : \A j \in 0 .. Len(hk.pairV) - 1 :
                    At(hk.pairU, i) = j <=> At(hk.pairV, j) = i
              /\ IsMatching(graph, PairedEdges(hk))
              /\ Cardinality(PairedEdges(hk)) = hk.matching

\* C10: on an undirected graph the set vertex_cover_approx returns touches
\* every edge.
C10_ApproxReturnsCover ==
    Returned("vertex_cover_approx") =>
        /\ ~result.null
        /\ IsVertexCover(graph, Members(result))

\* C10 witness: the greedy cover was returned for a graph with edges and
\* leaves some vertex out.
C10_Witness ==
    /\ Returned("vertex_cover_approx")
    /\ EdgesOf(graph) # {}
    /\ ~result.null /\ SetSize(result) < graph.node_count

\* C11: on an undirected graph with at least one vertex the set
\* vertex_cover_approx returns has at most twice as many vertices as the set
\* vertex_cover_exact_via_mis returns for the same graph.
C11_ApproxWithinTwiceExact ==
    (Returned("vertex_cover_approx") /\ graph.node_count >= 1) =>
        /\ ~result.null
        /\ ~vertex_cover_exact_via_mis(graph).null
        /\ SetSize(result) <= 2 * SetSize(vertex_cover_exact_via_mis(graph))

\* C11 witness: the greedy cover took two or more matching edges and is
\* exactly twice as large as the exact cover.
C11_Witness ==
    /\ Returned("vertex_cover_approx")
    /\ ~result.null /\ SetSize(result) >= 4
    /\ SetSize(result) = 2 * SetSize(vertex_cover_exact_via_mis(graph))

\* Some assignment of two sides to the vertices separates the ends of every edge.
TwoColourable(g) ==
    \E side \in [Vertices(g.node_count) -> {1, 2}] :
        \A e \in EdgesOf(g) : \A a \in e : \A b \in e : a # b => side[a] # side[b]

\* C12: on an undirected graph is_bipartite_partition answers true exactly
\* when the graph is 2-colourable; on true every vertex is in exactly one of
\* the two masks and no edge has both ends on one side; on false
\* vertex_cover_bipartite_konig has returned NULL.
C12_BipartitePartition ==
    (op = "vertex_cover_bipartite_konig" /\ ~graph.is_directed) =>
        /\ hk.partition.called
        /\ hk.partition.ok <=> TwoColourable(graph)
        /\ hk.partition.ok =>
              /\ DOMAIN hk.partition.left = Vertices(graph.node_count)
              /\ DOMAIN hk.partition.right = Vertices(graph.node_count)
              /\ \A v \in Vertices(graph.node_count) :
                    (hk.partition.left[v] # 0) # (hk.partition.right[v] # 0)
              /\ \A e \in EdgesOf(graph) : \A a \in e : \A b \in e :
                    a # b => (hk.partition.left[a] # 0) # (hk.partition.left[b] # 0)
        /\ ~hk.partition.ok => (pc = "done" /\ result.null)

\* C12 witness: a graph with an odd cycle was refused, NULL was returned.
C12_Witness ==
    /\ op = "vertex_cover_bipartite_konig" /\ pc = "done" /\ ~graph.is_directed
    /\ hk.partition.called /\ ~hk.partition.ok
    /\ result.null
    /\ ~TwoColourable(graph)

\* C13: when find_all_cliques returns on an undirected loop-free graph, every
\* non-empty clique of the graph, maximal or not, is among the recorded sets.
C13_AllCliquesRecorded ==
    Returned("find_all_cliques") =>
        \A X \in SUBSET Vertices(graph.node_count) :
            (X # {} /\ IsClique(graph, X)) => X \in Recorded

\* C13 witness: a recorded edge is part of a recorded triangle.
C13_Witness ==
    /\ Returned("find_all_cliques")
    /\ \E X \in Recorded : \E Y \in Recorded :
          Cardinality(X) = 2 /\ Cardinality(Y) = 3 /\ X \subseteq Y

\* C14: for an undirected graph create_complement_graph returns a new
\* undirected graph with the same vertex count in which, for i # j, the entry
\* (i, j) is set exactly when it is clear in the source, and no diagonal
\* entry is set.
C14_ComplementInvertsEdges ==
    (op = "create_complement_graph" /\ pc = "done" /\ ~graph.is_directed) =>
        /\ ~eng.null
        /\ ~eng.is_directed
        /\ eng.node_count = graph.node_count
        /\ \A i \in Vertices(graph.node_count) : \A j \in Vertices(graph.node_count) :
              IF i = j THEN ~Adjacent(eng, i, i)
              ELSE Adjacent(eng, i, j) <=> ~Adjacent(graph, i, j)

\* C14 witness: the complement of a graph with an edge and a missing edge
\* was returned.
C14_Witness ==
    /\ op = "create_complement_graph" /\ pc = "done" /\ ~graph.is_directed
    /\ ~eng.null
    /\ EdgesOf(graph) # {} /\ EdgesOf(eng) # {}

\* C15: the complement of the complement of an undirected loop-free graph has
\* the source's adjacency matrix, entry for entry.
C15_ComplementTwiceIsSource ==
    op = "create_complement_graph_twice" =>
        /\ ~eng.null
        /\ eng.node_count = graph.node_count
        /\ eng.adjacency = graph.adjacency

\* C15 witness: the second complement of a graph with an edge and a missing
\* edge was returned.
C15_Witness ==
    /\ op = "create_complement_graph_twice" /\ ~eng.null
    /\ EdgesOf(graph) # {}
    /\ Cardinality(EdgesOf(graph)) < (graph.node_count * (graph.node_count - 1)) \div 2

\* The operations that refuse a directed graph.
RejectDirected ==
    {"create_complement_graph", "find_maximum_independent_set",
     "find_minimum_vertex_cover", "vertex_cover_exact_via_mis",
     "vertex_cover_approx", "vertex_cover_bipartite_konig"}

\* C16: called on a graph with is_directed set, each of the six operations
\* has returned NULL and has built nothing: no complement, no recorded
\* clique, no partition or matching state.
C16_DirectedReturnsNull ==
    (graph.is_directed /\ op \in RejectDirected) =>
        /\ pc = "done"
        /\ result.null
        /\ eng.null
        /\ bk = EngineIdle
        /\ hk = HKIdle

\* C16 witness: a directed graph with edges was handed to the bipartite cover.
C16_Witness ==
    /\ graph.is_directed /\ EdgesOf(graph) # {}
    /\ op = "vertex_cover_bipartite_konig" /\ pc = "done"

C19_NullWhenNoEdges ==
    (Returned("find_maximum_clique") /\ EdgesOf(graph) = {}) => result.null

\* C20: on a graph with zero vertices neither enumerator records anything:
\* the result count stays 0.
C20_EmptyGraphRecordsNothing ==
    (op \in {"find_all_cliques", "find_maximal_cliques"} /\ graph.node_count = 0)
        => Len(bk.cliques) = 0

\* C21 as stated: on the path 0-1-2-3 and on the 5-cycle vertex_cover_approx
\* returns a cover of the size vertex_cover_exact_via_mis returns, 2 on the
\* path and 3 on the cycle.
C21_ApproxEqualsExactOnScenarios ==
    (Returned("vertex_cover_approx") /\ graph \in {PathGraph, CycleGraph}) =>
        /\ SetSize(result) = SetSize(vertex_cover_exact_via_mis(graph))
        /\ SetSize(result) = IF graph = PathGraph THEN 2 ELSE 3

\* C21 amended: vertex_cover_exact_via_mis returns a cover of size 2 on the
\* path 0-1-2-3 and of size 3 on the 5-cycle; vertex_cover_approx returns a
\* cover of size 4 on each of them.
C21_ScenarioCoverSizes ==
    /\ (Returned("vertex_cover_exact_via_mis") /\ graph = PathGraph) => SetSize(result) = 2
    /\ (Returned("vertex_cover_exact_via_mis") /\ graph = CycleGraph) => SetSize(result) = 3
    /\ (Returned("vertex_cover_approx") /\ graph \in {PathGraph, CycleGraph}) =>
          /\ SetSize(result) = 4
          /\ IsVertexCover(graph, Members(result))

\* C21 witness: the greedy cover of the 5-cycle was returned.
C21_Witness ==
    /\ Returned("vertex_cover_approx")
    /\ graph = CycleGraph
    /\ ~result.null /\ SetSize(result) = 4

\* What one set_add or set_remove call may do to the Set it is given.
SetCallEffect ==
    /\ call'.name = "set_add" =>
          IF SetSize(set) = set.capacity
          THEN set' = set
          ELSE /\ set'.vertices = Append(set.vertices, call'.vertex)
               /\ set'.capacity = set.capacity
    /\ call'.name = "set_remove" =>
          IF SetSize(set) = 0
          THEN set' = set
          ELSE /\ set'.vertices = SubSeq(set.vertices, 1, Len(set.vertices) - 1)
               /\ set'.capacity = set.capacity

\* C22: after any sequence of set_add and set_remove on a Set made by
\* set_create(capacity), 0 <= size <= capacity; set_add on a full Set and
\* set_remove on an empty Set change nothing; otherwise set_add appends the
\* vertex as the last element and set_remove takes exactly the last element
\* away, the rest keeping its order.
C22_SetStackDiscipline ==
    /\ [](~set.null => (0 <= SetSize(set) /\ SetSize(set) <= set.capacity))
    /\ [][SetCallEffect]_vars

\* C22 witness: a set_add on a full Set of two or more vertices was dropped.
C22_Witness ==
    /\ ~set.null
    /\ set.capacity >= 2 /\ SetSize(set) = set.capacity
    /\ call.name = "set_add"
    /\ call.vertex # set.vertices[Len(set.vertices)]

\* C23: in hopcroft_karp, after every augmentation and at return, pairU and
\* pairV are inverse to each other (pairU[i] = j exactly when pairV[j] = i),
\* every matched pair (left_nodes[i], right_nodes[pairU[i]]) is an edge of
\* the graph, and the count equals the number of matched left indices.
C23_PairArraysInverse ==
    (op = "vertex_cover_bipartite_konig" /\ pc \in {"hk", "done"} /\ hk.arrays) =>
        /\ \A i \in 0 .. Len(hk.pairU) - 1 : \A j \in 0 .. Len(hk.pairV) - 1 :
              At(hk.pairU, i) = j <=> At(hk.pairV, j) = i
        /\ \A i \in 0 .. Len(hk.pairU) - 1 :
              At(hk.pairU, i) # -1 =>
                  Adjacent(graph, At(hk.left_nodes, i), At(hk.right_nodes, At(hk.pairU, i)))
        /\ hk.matching = Cardinality({i \in 0 .. Len(hk.pairU) - 1 : At(hk.pairU, i) # -1})

\* C24: during a run of hopcroft_karp every array access stays inside the
\* array; the path-flipping loop never writes pairV[-1].
C24_NoOutOfBoundsWrite ==
    op = "vertex_cover_bipartite_konig" => (~hk.oob /\ ub = "none")

\* C25: in find_all_cliques, when a frame has processed a candidate v
\* (recursed on it and popped it from Current), v is no longer in that
\* frame's Candidates and has been appended to that frame's Excluded.
C25_ProcessedMovesToExcluded ==
    [][(op = "find_all_cliques" /\ pc = "enum" /\ bk.frames # <<>>
            /\ Top(bk).at = "called" /\ bk' # bk)
        => /\ Len(bk'.frames) = Len(bk.frames)
           /\ Top(bk).v \notin Members(Top(bk').P)
           /\ Top(bk').S.vertices = Append(Top(bk).S.vertices, Top(bk).v)]_vars

\* The vertices the suspended calls have branched on, outermost first.
CalledVertices(st) ==
    LET called == SelectSeq(st.frames, LAMBDA f : f.at = "called")
    IN  [k \in 1 .. Len(called) |-> called[k].v]

Enumerating == pc = "enum" /\ op \in PivotedOps \cup {"find_all_cliques"}

\* One step's effect on the frame at depth k, which exists before and after.
FrameEffect(k) ==
    LET f == bk.frames[k]
        g == bk'.frames[k]
    IN  \/ g.P = f.P /\ g.S = f.S
        \/ /\ k = Len(bk.frames) /\ f.at = "called"
           /\ Len(g.P.vertices) = Len(f.P.vertices) - 1
           /\ Members(g.P) = Members(f.P) \ {f.v}
           /\ g.S.vertices = Append(f.S.vertices, f.v)

\* C26: in both enumerators Current is, at every moment, exactly the
\* sequence of vertices the suspended calls branched on, so each call
\* returns with Current as it was when the call was made; no step changes
\* the Candidates or Excluded of a frame below the running one; and the only
\* change a frame makes to its own sets is moving the processed vertex from
\* Candidates to the end of Excluded.
C26_FramesKeepCallerState ==
    /\ [](Enumerating => bk.C.vertices = CalledVertices(bk))
    /\ [][(Enumerating /\ bk' # bk) =>
            \A k \in 1 .. Len(bk.frames) :
                k <= Len(bk'.frames) => FrameEffect(k)]_vars

NoRepeat(seq) == Cardinality(SeqMembers(seq)) = Len(seq)

AtMaximalEntry ==
    /\ pc = "enum" /\ op \in PivotedOps
    /\ bk.frames # <<>> /\ Top(bk).at = "entry"

\* C27: at the entry of every call of find_maximal_cliques started from the
\* standard initial sets, Current is a clique without repeats; Candidates
\* and Excluded have no repeats and are disjoint from each other and from
\* Current; each of their vertices is adjacent to every vertex of Current;
\* the three sizes sum to at most n while each set has capacity n; and the
\* set_add a call is about to make (on Current when it branches, on its
\* Excluded when the branch returns) always finds room.
C27_EntryInvariant ==
    /\ AtMaximalEntry =>
          LET C == bk.C
              P == Top(bk).P
              S == Top(bk).S
          IN  /\ NoRepeat(C.vertices) /\ NoRepeat(P.vertices) /\ NoRepeat(S.vertices)
              /\ IsClique(eng, Members(C))
              /\ Members(P) \cap Members(S) = {}
              /\ Members(P) \cap Members(C) = {}
              /\ Members(S) \cap Members(C) = {}
              /\ \A w \in Members(P) \cup Members(S) :
                    \A c \in Members(C) : Adjacent(eng, w, c)
              /\ SetSize(C) + SetSize(P) + SetSize(S) <= eng.node_count
              /\ C.capacity = eng.node_count
              /\ P.capacity = eng.node_count
              /\ S.capacity = eng.node_count
    /\ (pc = "enum" /\ op \in PivotedOps /\ bk.frames # <<>>) =>
          /\ (Top(bk).at = "loop" /\ Top(bk).i < Len(Top(bk).candidates))
                => SetSize(bk.C) < bk.C.capacity
          /\ Top(bk).at = "called" => SetSize(Top(bk).S) < Top(bk).S.capacity

\* C27 witness: a call is entered with Current, Candidates and Excluded all
\* non-empty.
C27_Witness ==
    /\ AtMaximalEntry
    /\ SetSize(bk.C) >= 1 /\ SetSize(Top(bk).P) >= 1 /\ SetSize(Top(bk).S) >= 1

\* Number of neighbours of w among the vertices of P.
NeighboursIn(g, w, P) == Cardinality({x \in Members(P) : Adjacent(g, w, x)})

\* u is the first vertex with the largest count when P is scanned before S.
FirstBestInScan(g, P, S, u) ==
    LET scan == P.vertices \o S.vertices
    IN  \E k \in 1 .. Len(scan) :
            /\ scan[k] = u
            /\ \A j \in 1 .. Len(scan) :
                  NeighboursIn(g, scan[j], P) <= NeighboursIn(g, u, P)
            /\ \A j \in 1 .. k - 1 :
                  NeighboursIn(g, scan[j], P) < NeighboursIn(g, u, P)

\* The pivot has just been chosen: the frame's P and S are still the ones
\* the scan ran over.
PivotJustChosen ==
    /\ pc = "enum" /\ op \in PivotedOps /\ bk.frames # <<>>
    /\ Top(bk).at = "loop" /\ Top(bk).i = 0

\* C28: in every non-terminal call of find_maximal_cliques the pivot u is a
\* vertex of Candidates or Excluded with the largest number of neighbours in
\* Candidates, the first such vertex when Candidates is scanned before
\* Excluded in ascending index; the vertices to branch on are exactly the
\* Candidates not adjacent to u, and every branch the call takes is on one
\* of them.
C28_PivotChoice ==
    /\ PivotJustChosen =>
          LET f == Top(bk)
          IN  /\ f.u \in Members(f.P) \cup Members(f.S)
              /\ FirstBestInScan(eng, f.P, f.S, f.u)
              /\ f.candidates = SelectSeq(f.P.vertices, LAMBDA w : ~Adjacent(eng, f.u, w))
    /\ (pc = "enum" /\ op \in PivotedOps) =>
          \A k \in 1 .. Len(bk.frames) :
              bk.frames[k].at = "called" =>
                  /\ bk.frames[k].v = At(bk.frames[k].candidates, bk.frames[k].i)
                  /\ bk.frames[k].v \in Members(bk.frames[k].P)
                  /\ ~Adjacent(eng, bk.frames[k].u, bk.frames[k].v)

\* C28 witness: a pivot was chosen with Excluded non-empty while a vertex
\* later in the scan has the same largest count.
C28_Witness ==
    /\ PivotJustChosen
    /\ SetSize(Top(bk).S) >= 1
    /\ \E w \in Members(Top(bk).P) \cup Members(Top(bk).S) :
          /\ w # Top(bk).u
          /\ NeighboursIn(eng, w, Top(bk).P) = NeighboursIn(eng, Top(bk).u, Top(bk).P)

NonEmptyCliquesOf(g) ==
    {X \in SUBSET Vertices(g.node_count) : X # {} /\ IsClique(g, X)}

MatchedRight(h) == {j \in 0 .. Len(h.pairV) - 1 : At(h.pairV, j) # -1}

\* The for loop over the start vertices of a phase has run to its end.
PhaseDfsOver == InHK("dfs") /\ hk.start >= Len(hk.left_nodes)

\* C30: hopcroft_karp terminates on every bipartite graph.  A phase whose
\* BFS found a free right vertex ends its DFS with a larger matching count
\* than it started with; a step that augments raises the count by one and
\* turns exactly one free right vertex into a matched one, none back; the
\* while loop makes at most right_n + 1 passes; and every run that entered
\* the loop leaves it: the function returns, unless the process is stopped
\* at the out-of-bounds write of the flip.
C30_HopcroftKarpTerminates ==
    /\ [](PhaseDfsOver => hk.matching > hk.phase_matching)
    /\ [][(pc = "hk" /\ hk'.matching # hk.matching) =>
            /\ hk'.matching = hk.matching + 1
            /\ MatchedRight(hk) \subseteq MatchedRight(hk')
            /\ Cardinality(MatchedRight(hk')) = Cardinality(MatchedRight(hk)) + 1]_vars
    /\ []((op = "vertex_cover_bipartite_konig" /\ hk.arrays)
            => hk.phases <= Len(hk.right_nodes) + 1)
    /\ (pc = "hk") ~> (hk.at = "returned" \/ pc = "aborted")

\* C30 witness: hopcroft_karp returned after three passes of the phase loop,
\* two of which augmented.
C30_Witness ==
    /\ op = "vertex_cover_bipartite_konig" /\ hk.at = "returned"
    /\ hk.phases >= 3 /\ hk.matching >= 2
====
